---- MODULE Spec2Model ----
(***************************************************************************)
(* Model of Methods/nvidia_stock_price_predictor.py: the module-level      *)
(* fetch, and main()'s pipeline load_data -> moving_average_prediction ->  *)
(* linear_regression_prediction -> visualize_predictions.                  *)
(*                                                                         *)
(* Prices are floats in the program; here they are exact rationals         *)
(* [num, den] in lowest terms, and NaN is the pair 0/0.  A DataFrame is a  *)
(* record [index, cols]: the row labels (dates) and a function from the    *)
(* column names to the columns, each a sequence with one cell per row.     *)
(***************************************************************************)
EXTENDS Integers, Sequences, FiniteSets, TLC

VARIABLES
    pc,          \* where the run stands: "import", "main", "loaded", "averaged",
                 \* "forecast", "done", or "fault" after an uncaught exception
    market,      \* the closes of the provider's table for the ticker and range
    stock_data,  \* the module-level stock_data (line 47)
    data,        \* main()'s local stock_data, handed from stage to stage
    window,      \* the window argument of moving_average_prediction
    split,       \* X_train and X_test (the Days of each part) of the last split
    mse,         \* the mean squared errors printed so far
    trace,       \* the stages called so far, in order
    saved        \* the number of times the chart file was written

vars == <<pc, market, stock_data, data, window, split, mse, trace, saved>>

(* ------------------------------ bounds --------------------------------- *)
MaxLen == 6          \* longest table the provider returns
MaxClose == 2        \* closing prices are 1..MaxClose
MaxWindow == 8       \* window sizes tried on moving_average_prediction
MaxLinLen == 11      \* longest perfectly linear series
MaxSlope == 2        \* slopes of the linear series are -MaxSlope..MaxSlope
MaxIntercept == 23   \* first closes of the linear series are 1..MaxIntercept

(* --------------------------- float arithmetic -------------------------- *)
Abs(x) == IF x < 0 THEN -x ELSE x

RECURSIVE GCD(_, _)
GCD(a, b) == IF b = 0 THEN a ELSE GCD(b, a % b)

NaN == [num |-> 0, den |-> 0]

IsNaN(v) == v.den = 0

Rat(n, d) ==
    IF d = 0 THEN NaN
    ELSE LET g == GCD(Abs(n), Abs(d))
             s == IF d < 0 THEN -1 ELSE 1
         IN  [num |-> (s * n) \div g, den |-> (s * d) \div g]

Float(i) == Rat(i, 1)

RAdd(a, b) == IF IsNaN(a) \/ IsNaN(b) THEN NaN
              ELSE Rat(a.num * b.den + b.num * a.den, a.den * b.den)

RSub(a, b) == IF IsNaN(a) \/ IsNaN(b) THEN NaN
              ELSE Rat(a.num * b.den - b.num * a.den, a.den * b.den)

RMul(a, b) == IF IsNaN(a) \/ IsNaN(b) THEN NaN
              ELSE Rat(a.num * b.num, a.den * b.den)

RDiv(a, b) == IF IsNaN(a) \/ IsNaN(b) THEN NaN
              ELSE Rat(a.num * b.den, a.den * b.num)

RECURSIVE RSum(_)
RSum(s) == IF s = <<>> THEN Float(0) ELSE RAdd(RSum(Tail(s)), Head(s))

Mean(s) == RDiv(RSum(s), Float(Len(s)))

(* ------------------------------ DataFrame ------------------------------ *)
NoFrame == [index |-> <<>>, cols |-> <<>>]

NRows(df) == Len(df.index)

Columns(df) == DOMAIN df.cols

\* df[name] = column: replaces the column when it exists, appends it otherwise
SetCol(df, name, column) == [df EXCEPT !.cols = (name :> column) @@ df.cols]

Max2(a, b) == IF a >= b THEN a ELSE b
Min2(a, b) == IF a <= b THEN a ELSE b

(* ------------------------------ load_data ------------------------------ *)
\* The provider's table for a sequence of closes: one row per trading day,
\* dates 1..n ascending; a day opens at the previous day's close.
OpenOf(closes, i) == IF i = 1 THEN closes[1] ELSE closes[i - 1]

yf_download(closes) ==
    LET n == Len(closes)
    IN  [index |-> [i \in 1..n |-> i],
         cols  |-> [Open   |-> [i \in 1..n |-> Float(OpenOf(closes, i))],
                    High   |-> [i \in 1..n |-> Float(Max2(OpenOf(closes, i), closes[i]))],
                    Low    |-> [i \in 1..n |-> Float(Min2(OpenOf(closes, i), closes[i]))],
                    Close  |-> [i \in 1..n |-> Float(closes[i])],
                    Volume |-> [i \in 1..n |-> Float(closes[i] + OpenOf(closes, i))]]]

load_data(closes) ==
    LET fetched == yf_download(closes)
    IN  SetCol(fetched, "Date", fetched.index)

(* ---------------------- moving_average_prediction ---------------------- *)
DefaultWindow == 5

\* Variant: rolling(window, min_periods=1), a partial window gives a value
min_periods_one(w) == 1

\* Series.rolling(window) without min_periods: a value needs a full window
min_periods(w) == w

\* Variant: the row leaving the window is never removed (an expanding mean)
RECURSIVE roll_state_expanding(_, _, _)
roll_state_expanding(column, w, i) ==
    IF i = 0 THEN [sum |-> Float(0), nobs |-> 0]
    ELSE LET prev == roll_state_expanding(column, w, i - 1)
         IN  IF IsNaN(column[i]) THEN prev
             ELSE [sum  |-> RAdd(prev.sum, column[i]),
                   nobs |-> IF prev.nobs < w THEN prev.nobs + 1 ELSE w]

\* The running sum and count of observations of the window that ends at row
\* i: the row entering the window is added, the row leaving it is removed.
RECURSIVE roll_state(_, _, _)
roll_state(column, w, i) ==
    IF i = 0 THEN [sum |-> Float(0), nobs |-> 0]
    ELSE LET prev    == roll_state(column, w, i - 1)
             added   == IF IsNaN(column[i]) THEN prev
                        ELSE [sum  |-> RAdd(prev.sum, column[i]),
                              nobs |-> prev.nobs + 1]
         IN  IF i - w >= 1 /\ ~IsNaN(column[i - w])
             THEN [sum  |-> RSub(added.sum, column[i - w]),
                   nobs |-> added.nobs - 1]
             ELSE added

rolling_mean(column, w) ==
    [i \in 1..Len(column) |->
        LET st == roll_state(column, w, i)
        IN  IF st.nobs >= min_periods(w) /\ st.nobs > 0
            THEN RDiv(st.sum, Float(st.nobs))
            ELSE NaN]

\* Variant: the mean is written over Close instead of into a new column
moving_average_prediction_overwrite(df, w) ==
    SetCol(df, "Close", rolling_mean(df.cols["Close"], w))

moving_average_prediction(df, w) ==
    SetCol(df, "Moving_Avg", rolling_mean(df.cols["Close"], w))

(* --------------------- linear_regression_prediction -------------------- *)
\* test_size = 0.2, as the fraction TestSizeNum / TestSizeDen
TestSizeNum == 1
TestSizeDen == 5

\* Variant: the day numbers start at 1
np_arange_from_one(n) == [i \in 1..n |-> i]

np_arange(n) == [i \in 1..n |-> i - 1]

Ceil(a, b) == (a + b - 1) \div b

\* Variant: the test size is rounded down
n_test_floor(n) == (TestSizeNum * n) \div TestSizeDen

n_test(n) == Ceil(TestSizeNum * n, TestSizeDen)

n_train(n) == n - n_test(n)

\* Variant: only an empty table is refused
split_fails_only_empty(n) == n = 0

\* train_test_split raises ValueError when the train set would be empty
split_fails(n) == n_train(n) = 0

\* The rows of each part, by position (shuffle=False: a prefix and a suffix)
train_rows(n) == [k \in 1..n_train(n) |-> k]

\* Variant: the test part is taken from the front of the table
test_rows_head(n) == [k \in 1..n_test(n) |-> k]

test_rows(n) == [k \in 1..n_test(n) |-> n_train(n) + k]

Take(column, rows) == [k \in 1..Len(rows) |-> column[rows[k]]]

\* train_test_split(X, y, test_size=0.2, shuffle=False)
train_test_split(df) ==
    LET n == NRows(df)
        X == df.cols["Days"]
        y == df.cols["Close"]
    IN  [X_train    |-> Take(X, train_rows(n)),
         X_test     |-> Take(X, test_rows(n)),
         y_train    |-> Take(y, train_rows(n)),
         y_test     |-> Take(y, test_rows(n)),
         test_index |-> Take(df.index, test_rows(n))]

\* Variant: fit_intercept=False, a line through the origin
LinearRegression_fit_no_intercept(X, y) ==
    LET m   == Len(X)
        Sxy == RSum([k \in 1..m |-> RMul(Float(X[k]), y[k])])
        Sxx == RSum([k \in 1..m |-> RMul(Float(X[k]), Float(X[k]))])
    IN  [coef_ |-> IF Sxx = Float(0) THEN Float(0) ELSE RDiv(Sxy, Sxx),
         intercept_ |-> Float(0)]

\* LinearRegression().fit(X, y): both are centred, the slope is the least
\* squares solution on the centred data (0 when X has no spread, the
\* minimum-norm solution), the intercept puts the line through the means.
LinearRegression_fit(X, y) ==
    LET m        == Len(X)
        Xf       == [k \in 1..m |-> Float(X[k])]
        X_offset == Mean(Xf)
        y_offset == Mean(y)
        Sxy      == RSum([k \in 1..m |->
                        RMul(RSub(Xf[k], X_offset), RSub(y[k], y_offset))])
        Sxx      == RSum([k \in 1..m |->
                        RMul(RSub(Xf[k], X_offset), RSub(Xf[k], X_offset))])
        coef     == IF Sxx = Float(0) THEN Float(0) ELSE RDiv(Sxy, Sxx)
    IN  [coef_ |-> coef,
         intercept_ |-> RSub(y_offset, RMul(X_offset, coef))]

predict(model, X) ==
    [k \in 1..Len(X) |-> RAdd(RMul(Float(X[k]), model.coef_), model.intercept_)]

\* Variant: the squared errors are summed, not averaged
mean_squared_error_sum(y_true, y_pred) ==
    RSum([k \in 1..Len(y_true) |->
            RMul(RSub(y_true[k], y_pred[k]), RSub(y_true[k], y_pred[k]))])

mean_squared_error(y_true, y_pred) ==
    Mean([k \in 1..Len(y_true) |->
            RMul(RSub(y_true[k], y_pred[k]), RSub(y_true[k], y_pred[k]))])

\* df.loc[labels, name] = values: the rows whose label is among the labels
Position(labels, l) == CHOOSE k \in 1..Len(labels) : labels[k] = l

loc_assign(df, labels, name, values) ==
    SetCol(df, name,
        [i \in 1..NRows(df) |->
            IF \E k \in 1..Len(labels) : labels[k] = df.index[i]
            THEN values[Position(labels, df.index[i])]
            ELSE df.cols[name][i]])

with_days(df) == SetCol(df, "Days", np_arange(NRows(df)))

\* The stage's result when the split succeeds: the frame, the parts of the
\* split and the error it prints.
linear_regression_prediction(df) ==
    LET d1     == with_days(df)
        parts  == train_test_split(d1)
        model  == LinearRegression_fit(parts.X_train, parts.y_train)
        y_pred == predict(model, parts.X_test)
        d2     == SetCol(d1, "Linear_Regression_Pred",
                         [i \in 1..NRows(d1) |-> NaN])
    IN  [data  |-> loc_assign(d2, parts.test_index,
                              "Linear_Regression_Pred", y_pred),
         split |-> [train |-> parts.X_train, test |-> parts.X_test],
         mse   |-> mean_squared_error(parts.y_test, y_pred)]

(* ------------------------------ the inputs ----------------------------- *)
\* Tables the provider can return: 0..MaxLen days, closes in 1..MaxClose
Series == UNION {[1..n -> 1..MaxClose] : n \in 0..MaxLen}

\* Perfectly linear series, Close = a * day + b, with positive prices
LinearSeries ==
    {s \in {[i \in 1..n |-> a * (i - 1) + b] :
                n \in 3..MaxLinLen, a \in -MaxSlope..MaxSlope, b \in 1..MaxIntercept} :
        \A i \in DOMAIN s : s[i] >= 1}

\* The series of the moving-average and split scenarios: closes 1, 2, .., 10
Scenario == [i \in 1..10 |-> i]

NoSplit == [train |-> <<>>, test |-> <<>>]

(* ------------------------- the program, stage by stage ----------------- *)
\* A fetch returns the provider's table, or nothing when the download fails
Fetched == {market, <<>>}

Init ==
    /\ pc = "import"
    /\ market \in Series
    /\ stock_data = NoFrame
    /\ data = NoFrame
    /\ window = DefaultWindow
    /\ split = NoSplit
    /\ mse = <<>>
    /\ trace = <<>>
    /\ saved = 0

\* Module level: stock_data = load_data(), then the preview is printed
ModuleLoad ==
    /\ pc = "import"
    /\ \E closes \in Fetched : stock_data' = load_data(closes)
    /\ trace' = Append(trace, "Loader")
    /\ pc' = "main"
    /\ UNCHANGED <<market, data, window, split, mse, saved>>

\* main(): stock_data = load_data(), a local of main
MainLoad ==
    /\ pc = "main"
    /\ \E closes \in Fetched : data' = load_data(closes)
    /\ trace' = Append(trace, "Loader")
    /\ pc' = "loaded"
    /\ UNCHANGED <<market, stock_data, window, split, mse, saved>>

\* main(): stock_data = moving_average_prediction(stock_data)
MovingAverageStage ==
    /\ pc = "loaded"
    /\ data' = moving_average_prediction(data, DefaultWindow)
    /\ trace' = Append(trace, "MovingAverage")
    /\ pc' = "averaged"
    /\ UNCHANGED <<market, stock_data, window, split, mse, saved>>

\* The body of linear_regression_prediction: the Days column is written,
\* then the split either raises (the run ends there) or the stage completes.
Forecast(returned) ==
    /\ trace' = Append(trace, "Forecaster")
    /\ IF split_fails(NRows(data))
       THEN /\ data' = with_days(data)
            /\ pc' = "fault"
            /\ UNCHANGED <<split, mse>>
       ELSE LET r == linear_regression_prediction(data)
            IN  /\ data' = r.data
                /\ split' = r.split
                /\ mse' = Append(mse, r.mse)
                /\ pc' = returned
    /\ UNCHANGED <<market, stock_data, window, saved>>

\* main(): stock_data = linear_regression_prediction(stock_data)
LinearRegressionStage ==
    /\ pc = "averaged"
    /\ Forecast("forecast")

\* main(): visualize_predictions(stock_data); savefig writes the chart file
Visualize ==
    /\ pc = "forecast"
    /\ {"Date", "Close", "Moving_Avg", "Linear_Regression_Pred"} \subseteq Columns(data)
    /\ saved' = saved + 1
    /\ trace' = Append(trace, "Visualizer")
    /\ pc' = "done"
    /\ UNCHANGED <<market, stock_data, data, window, split, mse>>

Next ==
    \/ ModuleLoad
    \/ MainLoad
    \/ MovingAverageStage
    \/ LinearRegressionStage
    \/ Visualize

Spec == Init /\ [][Next]_vars

(* ------------- moving_average_prediction on its own inputs ------------- *)
InitMA ==
    /\ pc = "ma_call"
    /\ market \in Series \cup {Scenario}
    /\ data = load_data(market)
    /\ window \in 1..MaxWindow
    /\ stock_data = NoFrame
    /\ split = NoSplit
    /\ mse = <<>>
    /\ trace = <<>>
    /\ saved = 0

CallMovingAverage ==
    /\ pc = "ma_call"
    /\ data' = moving_average_prediction(data, window)
    /\ trace' = Append(trace, "MovingAverage")
    /\ pc' = "ma_ret"
    /\ UNCHANGED <<market, stock_data, window, split, mse, saved>>

NextMA == CallMovingAverage

SpecMA == InitMA /\ [][NextMA]_vars

(* ----------- linear_regression_prediction on its own inputs ------------ *)
InitLR ==
    /\ pc = "lr_call"
    /\ market \in Series \cup LinearSeries
    /\ data = load_data(market)
    /\ window = DefaultWindow
    /\ stock_data = NoFrame
    /\ split = NoSplit
    /\ mse = <<>>
    /\ trace = <<>>
    /\ saved = 0

CallLinearRegression ==
    /\ pc = "lr_call"
    /\ Forecast("lr_ret")

NextLR == CallLinearRegression

SpecLR == InitLR /\ [][NextLR]_vars

(* ============================== the claims ============================= *)
ValueOf(v, n, d) == ~IsNaN(v) /\ v.num * d = v.den * n

RECURSIVE SumInts(_, _, _)
SumInts(s, lo, hi) == IF lo > hi THEN 0 ELSE s[lo] + SumInts(s, lo + 1, hi)

Defined(column) == {i \in DOMAIN column : ~IsNaN(column[i])}

MovingAvg == data.cols["Moving_Avg"]
Pred == data.cols["Linear_Regression_Pred"]

\* C1: with 1 <= window <= n, Moving_Avg is undefined at the first window - 1
\* rows and, at every later row i, is the mean of Close over rows
\* i-window+1..i; closes 1..10 with window 5 give NA,NA,NA,NA,3,4,5,6,7,8.
C1_MovingAverageIsTrailingMean ==
    (pc = "ma_ret" /\ window <= Len(market)) =>
        /\ Len(MovingAvg) = Len(market)
        /\ \A i \in 1..Len(market) :
              IF i < window
              THEN IsNaN(MovingAvg[i])
              ELSE ValueOf(MovingAvg[i],
                           SumInts(market, i - window + 1, i), window)
        /\ Cardinality(Defined(MovingAvg)) = Len(market) - window + 1
        /\ (market = Scenario /\ window = 5) =>
              MovingAvg = <<NaN, NaN, NaN, NaN, Float(3), Float(4), Float(5),
                            Float(6), Float(7), Float(8)>>

C1_Witness ==
    /\ pc = "ma_ret"
    /\ market = Scenario
    /\ window = 5
    /\ MovingAvg[4] = NaN
    /\ MovingAvg[10] = Float(8)

\* C10: a window larger than the series completes and leaves every
\* Moving_Avg value undefined; a value is defined only if 1 <= window <= n.
C10_WindowLongerThanSeries ==
    (pc = "ma_ret") =>
        /\ "Moving_Avg" \in Columns(data)
        /\ Len(MovingAvg) = Len(market)
        /\ Defined(MovingAvg) # {} => (1 <= window /\ window <= Len(market))
        /\ window > Len(market) => \A i \in 1..Len(market) : IsNaN(MovingAvg[i])

C10_Witness ==
    /\ pc = "ma_ret"
    /\ Len(market) = 3
    /\ window = 5
    /\ MovingAvg = <<NaN, NaN, NaN>>

\* The least k with 5 * k >= n: the size of the evaluation slice, ceil(0.2 n)
EvalSize(n) == CHOOSE k \in 0..n : 5 * k >= n /\ (k = 0 \/ 5 * (k - 1) < n)

\* C2: after the forecaster on n >= 2 rows, Linear_Regression_Pred is defined
\* exactly at the last ceil(0.2 n) rows and undefined at every other row.
C2_ForecastOnlyOnEvaluationSlice ==
    (pc = "lr_ret" /\ Len(market) >= 2) =>
        /\ Len(Pred) = Len(market)
        /\ Defined(Pred) = {i \in 1..Len(market) :
                                i > Len(market) - EvalSize(Len(market))}

C2_Witness ==
    /\ pc = "lr_ret"
    /\ Len(market) = 6
    /\ Defined(Pred) = {5, 6}

\* C3: the training slice is a prefix and the evaluation slice the suffix of
\* the time indices, disjoint, covering every row, every training index
\* below every evaluation index; 10 rows split into 0..7 and 8..9.
C3_SplitIsChronological ==
    (pc = "lr_ret") =>
        LET n == Len(market)
        IN  /\ split.train \o split.test = [i \in 1..n |-> i - 1]
            /\ Len(split.test) = EvalSize(n)
            /\ \A a \in 1..Len(split.train), b \in 1..Len(split.test) :
                  split.train[a] < split.test[b]
            /\ n = 10 => /\ split.train = <<0, 1, 2, 3, 4, 5, 6, 7>>
                         /\ split.test = <<8, 9>>

C3_Witness ==
    /\ pc = "lr_ret"
    /\ market = Scenario
    /\ split.test = <<8, 9>>

RECURSIVE SumOver(_, _)
SumOver(f, S) ==
    IF S = {} THEN Float(0)
    ELSE LET i == CHOOSE x \in S : TRUE
         IN  RAdd(f[i], SumOver(f, S \ {i}))

SquaredError == [i \in Defined(Pred) |->
                    RMul(RSub(Pred[i], data.cols["Close"][i]),
                         RSub(Pred[i], data.cols["Close"][i]))]

\* C4: the reported mean squared error is non-negative and is the average,
\* over the rows that hold a forecast, of (forecast - Close)^2.
C4_MeanSquaredError ==
    (pc = "lr_ret") =>
        /\ Len(mse) = 1
        /\ ~IsNaN(mse[1])
        /\ mse[1].num >= 0
        /\ RMul(mse[1], Float(Cardinality(Defined(Pred))))
              = SumOver(SquaredError, Defined(Pred))

C4_Witness ==
    /\ pc = "lr_ret"
    /\ Cardinality(Defined(Pred)) = 2
    /\ mse[1].num > 0
    /\ mse[1].den > 1

\* C5: Days holds 0, 1, .., n-1, one per row, in ascending date order.
C5_DaysAreRowNumbers ==
    (pc \in {"lr_ret", "fault"}) =>
        LET Days == data.cols["Days"]
            n    == Len(market)
        IN  /\ Len(Days) = n
            /\ n >= 1 => Days[1] = 0 /\ Days[n] = n - 1
            /\ \A i \in 1..(n - 1) :
                  /\ Days[i + 1] = Days[i] + 1
                  /\ data.index[i] < data.index[i + 1]

C5_Witness ==
    /\ pc = "lr_ret"
    /\ data.cols["Days"] = <<0, 1, 2, 3, 4, 5>>

IsLinear(s) ==
    /\ Len(s) >= 3
    /\ \A i \in 2..(Len(s) - 1) : s[i + 1] - s[i] = s[i] - s[i - 1]

\* C9: on a perfectly linear series of n >= 3 rows every forecast equals the
\* actual Close of its row and the reported mean squared error is zero.
C9_LinearSeriesIsForecastExactly ==
    (pc = "lr_ret" /\ IsLinear(market)) =>
        /\ Defined(Pred) # {}
        /\ \A i \in Defined(Pred) : Pred[i] = data.cols["Close"][i]
        /\ mse = <<Float(0)>>

C9_Witness ==
    /\ pc = "lr_ret"
    /\ Len(market) = 11
    /\ market[1] = 23
    /\ market[11] = 3
    /\ Pred[11] = Float(3)
    /\ mse = <<Float(0)>>

StageOrder == <<"Loader", "MovingAverage", "Forecaster", "Visualizer">>

Runs(stage) == Cardinality({i \in DOMAIN trace : trace[i] = stage})

\* C6: a run is a single forward pass: the stages run in the order Loader,
\* Moving-Average Stage, Trend Forecaster, Visualizer, each exactly once (the
\* external fetch happens once per run).
C6_SingleForwardPass ==
    /\ Len(trace) <= Len(StageOrder)
    /\ trace = SubSeq(StageOrder, 1, Len(trace))
    /\ pc = "done" => trace = StageOrder

SourceColumns == {"Date", "Open", "High", "Low", "Close", "Volume"}

Ascending(labels) == \A i \in 1..(Len(labels) - 1) : labels[i] < labels[i + 1]

\* C7: the Moving-Average Stage and the Trend Forecaster leave the source
\* columns, the rows and their order as they were and only add columns; the
\* Moving-Average Stage adds the Moving_Avg column and changes nothing else.
C7_StagesOnlyAppendColumns ==
    [][(pc \in {"loaded", "averaged"}) =>
          /\ data'.index = data.index
          /\ Ascending(data'.index)
          /\ Columns(data) \subseteq Columns(data')
          /\ \A c \in SourceColumns : data'.cols[c] = data.cols[c]
          /\ \A c \in Columns(data') : Len(data'.cols[c]) = NRows(data)
          /\ (pc = "loaded") =>
                /\ Columns(data') = Columns(data) \cup {"Moving_Avg"}
                /\ "Moving_Avg" \notin Columns(data)
                /\ UNCHANGED <<market, stock_data, window, split, mse, saved>>
          /\ (pc = "averaged") =>
                /\ data'.cols["Moving_Avg"] = data.cols["Moving_Avg"]
                /\ Columns(data') \ Columns(data)
                      \subseteq {"Days", "Linear_Regression_Pred"}
      ]_vars

C7_Witness ==
    /\ pc = "done"
    /\ NRows(data) = 6
    /\ Defined(MovingAvg) = {5, 6}
    /\ Defined(Pred) = {5, 6}
    /\ data.cols["Close"] = [i \in 1..6 |-> Float(market[i])]
    /\ \E i \in 1..6 : data.cols["Open"][i] # data.cols["Close"][i]

\* C8: when main()'s table has fewer than 2 rows the run ends in an uncaught
\* fault in the Trend Forecaster: nothing runs after it, no stage runs again,
\* the Visualizer never runs and no chart file is written.
C8_TooFewRowsEndTheRun ==
    (pc \in {"loaded", "averaged", "forecast", "fault", "done"}
        /\ NRows(data) < 2) =>
        /\ pc \in {"loaded", "averaged", "fault"}
        /\ saved = 0
        /\ Runs("Visualizer") = 0
        /\ Runs("MovingAverage") <= 1
        /\ Runs("Forecaster") <= 1
        /\ Runs("Forecaster") = 1 => pc = "fault"
        /\ pc = "fault" => /\ trace[Len(trace)] = "Forecaster"
                           /\ ~ENABLED Next

C8_Witness ==
    /\ pc = "fault"
    /\ NRows(data) = 1
    /\ Len(market) = 1
    /\ saved = 0

====
